---- MODULE Spec2Model ----
(***************************************************************************)
(* Model of govready-q/download/release-grq.py: the release publisher      *)
(* pipeline of main() (metadata read, per-format download, size, checksum, *)
(* row rendering) together with its except clauses and the SIGINT handler. *)
(*                                                                         *)
(* Text is modelled as a sequence of tokens.  A token is either one of the *)
(* single characters "/" and " " or a chunk of text that contains neither, *)
(* so that split('/') and replace(" ", "_") act on tokens exactly as the   *)
(* Python methods act on characters.                                       *)
(***************************************************************************)
EXTENDS Integers, Sequences, FiniteSets, TLC

VARIABLES pc, args, r, release_info, release_name, idx, url, file, size,
          p, checksum, stdout, stderr, fs, net, procs, exc, exitCode,
          interrupted

vars == <<pc, args, r, release_info, release_name, idx, url, file, size,
          p, checksum, stdout, stderr, fs, net, procs, exc, exitCode,
          interrupted>>

(* ---------------------------- bounds ---------------------------------- *)

MaxUrlLen == 3
MaxVerbose == 1
MaxTimeout == 1
MaxSize == 1

(* --------------------------- constants -------------------------------- *)

DefaultTimeout == 120

RELEASE_INFO ==
    <<"https:", "/", "/", "api.github.com", "/", "repos", "/", "govready", "/",
      "govready-q", "/", "releases", "/", "latest">>

RELEASE_TAG_URL ==
    <<"https:", "/", "/", "github.com", "/", "GovReady", "/", "govready-q", "/",
      "archive", "/", "refs", "/", "tags", "/">>

SPACER == <<"\n====\n">>

Exts == <<".zip", ".tar.gz">>

XcrunError == "xcrun: error: invalid active developer path"

(* ------------------------ environment inputs -------------------------- *)

Alphabet == {"v1", " ", "/"}

Texts == UNION {[1..n -> Alphabet] : n \in 0..MaxUrlLen}

Timeouts == {DefaultTimeout} \cup (1..MaxTimeout)

ArgsSet == [user : BOOLEAN, verbose : 0..MaxVerbose, timeout : Timeouts]

Bodies ==
    {[wellformed |-> FALSE, has_html_url |-> FALSE, html_url |-> <<>>],
     [wellformed |-> TRUE, has_html_url |-> FALSE, html_url |-> <<>>]}
    \cup {[wellformed |-> TRUE, has_html_url |-> TRUE, html_url |-> u] : u \in Texts}

StatusCodes == {200, 404}

Sizes == 0..MaxSize

Hashes == {"abcd1234"}

StderrTexts == {<<>>, <<XcrunError>>, <<"shasum:", " ", "error">>}

\* what "shasum -a 256 file" writes to its standard output
ShasumOutput(h, f) == <<h, " ", " ">> \o f \o <<"\n">>

\* how the checksum executable can behave on the file f: it is missing, it
\* does not finish in time, or it exits with a return code
ProcessBehaviours(f) ==
    {[kind |-> "missing", returncode |-> -1, out |-> <<>>, err |-> <<>>],
     [kind |-> "hangs", returncode |-> -1, out |-> <<>>, err |-> <<>>]}
    \cup {[kind |-> "exits", returncode |-> 0, out |-> ShasumOutput(h, f), err |-> <<>>] :
             h \in Hashes}
    \cup {[kind |-> "exits", returncode |-> 1, out |-> <<>>, err |-> e] : e \in StderrTexts}

(* --------------------------- pure helpers ----------------------------- *)

None == [none |-> TRUE, data |-> <<>>]

Bytes(d) == [none |-> FALSE, data |-> d]

Unbound == [bound |-> FALSE]

NoExc == [cls |-> "none"]

NoProc == [returncode |-> -1, stdout |-> None, stderr |-> None]

RECURSIVE LastIndexOf(_, _, _)
LastIndexOf(s, c, i) ==
    IF i = 0 THEN 0
    ELSE IF s[i] = c THEN i
    ELSE LastIndexOf(s, c, i - 1)

RECURSIVE FirstIndexOf(_, _, _)
FirstIndexOf(s, c, i) ==
    IF i > Len(s) THEN 0
    ELSE IF s[i] = c THEN i
    ELSE FirstIndexOf(s, c, i + 1)

\* s.split(c)[-1]
SplitLast(s, c) == SubSeq(s, LastIndexOf(s, c, Len(s)) + 1, Len(s))

\* s.split(c)[0]
SplitFirst(s, c) ==
    IF FirstIndexOf(s, c, 1) = 0 THEN s
    ELSE SubSeq(s, 1, FirstIndexOf(s, c, 1) - 1)

\* s.replace(a, b)
Replace(s, a, b) == [i \in 1..Len(s) |-> IF s[i] = a THEN b ELSE s[i]]

Max(a, b) == IF a >= b THEN a ELSE b

Append2(s, a, b) == Append(Append(s, a), b)

Line(t) == [kind |-> "line", text |-> t]


(* ------------------- operations of the program ------------------------ *)

\* class ReturncodeNonZeroError: the exception keeps the completed process
ReturncodeNonZeroError(completed_process) ==
    [cls |-> "ReturncodeNonZeroError", completed_process |-> completed_process,
     cmd |-> <<>>, timeout |-> 0, code |-> 1, lineno |-> 173]

\* subprocess.TimeoutExpired(cmd, timeout), raised by subprocess.run
TimeoutExpired(cmd, timeout) ==
    [cls |-> "TimeoutExpired", completed_process |-> NoProc,
     cmd |-> cmd, timeout |-> timeout, code |-> 1, lineno |-> 171]

\* any other exception raised by the line lineno of main
Error(cls, lineno) ==
    [cls |-> cls, completed_process |-> NoProc,
     cmd |-> <<>>, timeout |-> 0, code |-> 1, lineno |-> lineno]

\* sys.exit(code) in the SIGINT handler raises SystemExit(code)
SystemExit(code) ==
    [cls |-> "SystemExit", completed_process |-> NoProc,
     cmd |-> <<>>, timeout |-> 0, code |-> code, lineno |-> 53]

\* a catch-all written as a bare except takes every exception
IsException_Bare(cls) == cls # "none"

\* classes derived from Exception; SystemExit derives from BaseException only
IsException(cls) == cls \notin {"SystemExit", "none"}

\* the except clause of main that takes the exception e, "none" if it
\* leaves main
ExceptClause(e) ==
    CASE e.cls = "ReturncodeNonZeroError" -> "ReturncodeNonZeroError"
      [] e.cls = "TimeoutExpired" -> "TimeoutExpired"
      [] e.cls = "HaltedError" -> "HaltedError"
      [] e.cls = "FatalError" -> "FatalError"
      [] OTHER -> IF IsException(e.cls) THEN "Exception" ELSE "none"

\* the body is parsed whatever the status of the response
ReleaseInfoOf_AnyStatus(resp) ==
    [bound |-> TRUE, has_html_url |-> resp.body.has_html_url,
     html_url |-> resp.body.html_url]

\* lines 139-143: release_info is assigned on status 200 only
ReleaseInfoOf(resp) ==
    IF resp.status_code = 200
    THEN [bound |-> TRUE, has_html_url |-> resp.body.has_html_url,
          html_url |-> resp.body.html_url]
    ELSE Unbound

\* line 121: the local file name download() derives from the url
DownloadFilename(u) == <<"govready-q-">> \o Replace(SplitLast(u, "/"), " ", "_")

\* lines 166-169: the checksum command
GetChecksum(user, f) ==
    [argv |-> IF user THEN <<"shasum", "-a", "256", "--user">>
                       ELSE <<"shasum", "-a", "256">>,
     file |-> f]

\* a shell-like runner: a missing executable is reported as exit code 127
run_optionally_verbose_Shell(sys, cmd, timeout, verbose_flag) ==
    CASE sys.kind = "missing" ->
           [kind |-> "return", exc |-> NoExc,
            p |-> [args |-> cmd, returncode |-> 127,
                   stdout |-> IF verbose_flag # 0 THEN None ELSE Bytes(<<>>),
                   stderr |-> IF verbose_flag # 0 THEN None ELSE Bytes(<<>>)]]
      [] sys.kind = "hangs" ->
           [kind |-> "raise", exc |-> TimeoutExpired(cmd, timeout), p |-> NoProc]
      [] OTHER ->
           [kind |-> "return", exc |-> NoExc,
            p |-> [args |-> cmd, returncode |-> sys.returncode,
                   stdout |-> IF verbose_flag # 0 THEN None ELSE Bytes(sys.out),
                   stderr |-> IF verbose_flag # 0 THEN None ELSE Bytes(sys.err)]]

\* lines 88-96: the result of run_optionally_verbose when the executable
\* behaves as sys; subprocess.run raises FileNotFoundError for a missing
\* executable and TimeoutExpired(cmd, timeout) for one that does not
\* finish in time, and the streams of the completed process are captured
\* in quiet mode only
run_optionally_verbose(sys, cmd, timeout, verbose_flag) ==
    CASE sys.kind = "missing" ->
           [kind |-> "raise", exc |-> Error("FileNotFoundError", 171), p |-> NoProc]
      [] sys.kind = "hangs" ->
           [kind |-> "raise", exc |-> TimeoutExpired(cmd, timeout), p |-> NoProc]
      [] OTHER ->
           [kind |-> "return", exc |-> NoExc,
            p |-> [args |-> cmd, returncode |-> sys.returncode,
                   stdout |-> IF verbose_flag # 0 THEN None ELSE Bytes(sys.out),
                   stderr |-> IF verbose_flag # 0 THEN None ELSE Bytes(sys.err)]]

\* only a process killed by a signal counts as failed
ReturncodeFailed_Negative(proc) == proc.returncode < 0

\* line 172
ReturncodeFailed(proc) == proc.returncode # 0

\* lines 179-186
HtmlBlock(name, ext, sum, sz) ==
    [kind |-> "html_block", ext |-> ext, release |-> name,
     href |-> <<"govready-q-">> \o name \o <<ext>>,
     text |-> <<"govready-q-">> \o name \o <<ext>>,
     checksum |-> sum, size |-> sz]

\* the message reports the suggested timeout in place of the configured one
TimeoutMessage_Suggested(e) ==
    [kind |-> "fatal_timeout", cmd |-> e.cmd, timeout |-> Max(e.timeout + 120, 600)]

\* line 219
TimeoutMessage(e) == [kind |-> "fatal_timeout", cmd |-> e.cmd, timeout |-> e.timeout]

\* line 220
TimeoutSuggestion(a) == [kind |-> "suggest_timeout", timeout |-> Max(a.timeout + 120, 600)]

\* the program counter values inside the try block of main
TryPcs == {"get_release_info", "parse_release_info", "print_release_info",
           "for", "download", "getsize", "run_checksum", "check_returncode",
           "parse_checksum", "render"}

Raise(e) == /\ exc' = e
            /\ pc' = "raised"

(* ------------------------------ Init --------------------------------- *)

\* the state of main() after parse_args (line 135)
Init ==
    /\ pc = "get_release_info"
    /\ args \in ArgsSet
    /\ r = [status_code |-> 0, body |-> [wellformed |-> FALSE, has_html_url |-> FALSE, html_url |-> <<>>]]
    /\ release_info = Unbound
    /\ release_name = <<>>
    /\ idx = 0
    /\ url = <<>>
    /\ file = <<>>
    /\ size = 0
    /\ p = NoProc
    /\ checksum = <<>>
    /\ stdout = <<Line(<<"Welcome">>)>>
    /\ stderr = <<>>
    /\ fs = {}
    /\ net = <<>>
    /\ procs = <<>>
    /\ exc = NoExc
    /\ exitCode = -1
    /\ interrupted = FALSE

(* ----------------------------- actions ------------------------------- *)

\* line 138: r = requests.get(RELEASE_INFO)
GetReleaseInfo ==
    /\ pc = "get_release_info"
    /\ \/ /\ net' = Append(net, [ext |-> "", url |-> RELEASE_INFO, outcome |-> "network_error",
                                 status_code |-> 0, size |-> 0])
          /\ Raise(Error("ConnectionError", 138))
          /\ UNCHANGED r
       \/ \E sc \in StatusCodes, b \in Bodies :
            /\ r' = [status_code |-> sc, body |-> b]
            /\ net' = Append(net, [ext |-> "", url |-> RELEASE_INFO, outcome |-> "response",
                                   status_code |-> sc, size |-> 0])
            /\ pc' = "parse_release_info"
            /\ UNCHANGED exc
    /\ UNCHANGED <<args, release_info, release_name, idx, url, file, size, p,
                   checksum, stdout, stderr, fs, procs, exitCode, interrupted>>

\* lines 139-143
ParseReleaseInfo ==
    /\ pc = "parse_release_info"
    /\ IF r.status_code = 200 /\ ~r.body.wellformed
       THEN /\ Raise(Error("JSONDecodeError", 140))
            /\ UNCHANGED <<release_info, stdout>>
       ELSE /\ release_info' = ReleaseInfoOf(r)
            /\ stdout' = IF ReleaseInfoOf(r).bound THEN stdout
                         ELSE Append(stdout, Line(<<"An error occurred while attempting to retrieve data from the API.">>))
            /\ pc' = "print_release_info"
            /\ UNCHANGED exc
    /\ UNCHANGED <<args, r, release_name, idx, url, file, size, p, checksum,
                   stderr, fs, net, procs, exitCode, interrupted>>

\* lines 146-150
PrintReleaseInfo ==
    /\ pc = "print_release_info"
    /\ IF ~release_info.bound
       THEN /\ Raise(Error("UnboundLocalError", 146))
            /\ UNCHANGED <<release_name, stdout>>
       ELSE IF ~release_info.has_html_url
       THEN /\ Raise(Error("KeyError", 146))
            /\ UNCHANGED <<release_name, stdout>>
       ELSE /\ release_name' = SplitLast(release_info.html_url, "/")
            /\ stdout' = stdout \o
                 <<Line(<<"release_info.html_url", " ">> \o release_info.html_url),
                   Line(SPACER),
                   Line(<<"Getting release", " ">> \o SplitLast(release_info.html_url, "/"))>>
            /\ pc' = "for"
            /\ UNCHANGED exc
    /\ UNCHANGED <<args, r, release_info, idx, url, file, size, p, checksum,
                   stderr, fs, net, procs, exitCode, interrupted>>

\* line 153: the next format, or the end of main
For ==
    /\ pc = "for"
    /\ IF idx < Len(Exts)
       THEN /\ idx' = idx + 1
            /\ pc' = "download"
       ELSE /\ pc' = "return"
            /\ UNCHANGED idx
    /\ UNCHANGED <<args, r, release_info, release_name, url, file, size, p,
                   checksum, stdout, stderr, fs, net, procs, exc, exitCode,
                   interrupted>>

\* lines 155-158 with download(), lines 118-127: the response body is
\* written to the file whatever the status of the response
Download ==
    /\ pc = "download"
    /\ url' = RELEASE_TAG_URL \o release_name \o <<Exts[idx]>>
    /\ \/ /\ net' = Append(net, [ext |-> Exts[idx], url |-> url', outcome |-> "network_error",
                                 status_code |-> 0, size |-> 0])
          /\ Raise(Error("ConnectionError", 157))
          /\ UNCHANGED <<file, fs, stdout>>
       \/ \E sc \in StatusCodes, n \in Sizes :
            /\ net' = Append(net, [ext |-> Exts[idx], url |-> url', outcome |-> "response",
                                   status_code |-> sc, size |-> n])
            /\ fs' = {f \in fs : f.name # DownloadFilename(url')}
                        \cup {[name |-> DownloadFilename(url'), size |-> n]}
            /\ file' = DownloadFilename(url')
            /\ stdout' = Append2(stdout, Line(<<"downloading", " ">> \o url'),
                                 Line(<<"Downloaded", " ">> \o DownloadFilename(url')))
            /\ pc' = "getsize"
            /\ UNCHANGED exc
    /\ UNCHANGED <<args, r, release_info, release_name, idx, size, p, checksum,
                   stderr, procs, exitCode, interrupted>>

\* lines 161-162
GetSize ==
    /\ pc = "getsize"
    /\ \E f \in fs :
         /\ f.name = file
         /\ size' = f.size
         /\ stdout' = Append(stdout, [kind |-> "filesize", size |-> f.size])
    /\ pc' = "run_checksum"
    /\ UNCHANGED <<args, r, release_info, release_name, idx, url, file, p,
                   checksum, stderr, fs, net, procs, exc, exitCode, interrupted>>

\* lines 165-171
RunChecksum ==
    /\ pc = "run_checksum"
    /\ \E sys \in ProcessBehaviours(file) :
       LET res == run_optionally_verbose(sys, GetChecksum(args.user, file), args.timeout, args.verbose)
       IN
         /\ procs' = Append(procs, [ext |-> Exts[idx], cmd |-> GetChecksum(args.user, file),
                                    outcome |-> sys.kind, returncode |-> sys.returncode])
         /\ IF res.kind = "raise"
            THEN /\ Raise(res.exc)
                 /\ stdout' = Append(stdout, Line(<<"Get checksum">>))
                 /\ UNCHANGED p
            ELSE /\ p' = res.p
                 /\ stdout' = IF args.verbose # 0
                              THEN Append2(stdout, Line(<<"Get checksum">>), Line(<<"Elapsed time">>))
                              ELSE Append(stdout, Line(<<"Get checksum">>))
                 /\ pc' = "check_returncode"
                 /\ UNCHANGED exc
    /\ UNCHANGED <<args, r, release_info, release_name, idx, url, file, size,
                   checksum, stderr, fs, net, exitCode, interrupted>>

\* lines 172-173
CheckReturncode ==
    /\ pc = "check_returncode"
    /\ IF ReturncodeFailed(p)
       THEN Raise(ReturncodeNonZeroError(p))
       ELSE /\ pc' = "parse_checksum"
            /\ UNCHANGED exc
    /\ UNCHANGED <<args, r, release_info, release_name, idx, url, file, size, p,
                   checksum, stdout, stderr, fs, net, procs, exitCode, interrupted>>

\* lines 175-177: p.stdout is None when the output was not captured
ParseChecksum ==
    /\ pc = "parse_checksum"
    /\ IF p.stdout.none
       THEN /\ Raise(Error("AttributeError", 175))
            /\ UNCHANGED <<checksum, stdout>>
       ELSE /\ checksum' = SplitFirst(p.stdout.data, " ")
            /\ stdout' = Append(stdout, Line(<<"checksum is", " ">> \o SplitFirst(p.stdout.data, " ")))
            /\ pc' = "render"
            /\ UNCHANGED exc
    /\ UNCHANGED <<args, r, release_info, release_name, idx, url, file, size, p,
                   stderr, fs, net, procs, exitCode, interrupted>>

\* lines 179-191
Render ==
    /\ pc = "render"
    /\ stdout' = Append2(stdout, HtmlBlock(release_name, Exts[idx], checksum, size), Line(SPACER))
    /\ pc' = "for"
    /\ UNCHANGED <<args, r, release_info, release_name, idx, url, file, size, p,
                   checksum, stderr, fs, net, procs, exc, exitCode, interrupted>>

\* line 53: SIGINT handler, sys.exit(0) at the point main has reached
Interrupt ==
    /\ pc \in TryPcs
    /\ Raise(SystemExit(0))
    /\ interrupted' = TRUE
    /\ UNCHANGED <<args, r, release_info, release_name, idx, url, file, size, p,
                   checksum, stdout, stderr, fs, net, procs, exitCode>>

\* the handler writes its diagnostic and falls out of main without sys.exit(1)
HandleReturncodeNonZero_NoExit ==
    /\ pc = "raised"
    /\ ExceptClause(exc) = "ReturncodeNonZeroError"
    /\ stderr' = Append(stderr, [kind |-> "fatal_returncode", args |-> exc.completed_process.args,
                                 returncode |-> exc.completed_process.returncode])
    /\ exitCode' = 0
    /\ pc' = "exited"
    /\ UNCHANGED <<args, r, release_info, release_name, idx, url, file, size, p,
                   checksum, stdout, fs, net, procs, exc, interrupted>>

\* lines 208-216
HandleReturncodeNonZero ==
    /\ pc = "raised"
    /\ ExceptClause(exc) = "ReturncodeNonZeroError"
    /\ LET cp == exc.completed_process
           msg == [kind |-> "fatal_returncode", args |-> cp.args, returncode |-> cp.returncode]
       IN stderr' = IF ~cp.stderr.none /\ cp.stderr.data # <<>>
                       /\ \E i \in 1..Len(cp.stderr.data) : cp.stderr.data[i] = XcrunError
                    THEN Append2(stderr, msg, [kind |-> "suggest_xcode_select"])
                    ELSE Append(stderr, msg)
    /\ exitCode' = 1
    /\ pc' = "exited"
    /\ UNCHANGED <<args, r, release_info, release_name, idx, url, file, size, p,
                   checksum, stdout, fs, net, procs, exc, interrupted>>

\* lines 218-221
HandleTimeoutExpired ==
    /\ pc = "raised"
    /\ ExceptClause(exc) = "TimeoutExpired"
    /\ stderr' = Append2(stderr, TimeoutMessage(exc), TimeoutSuggestion(args))
    /\ exitCode' = 1
    /\ pc' = "exited"
    /\ UNCHANGED <<args, r, release_info, release_name, idx, url, file, size, p,
                   checksum, stdout, fs, net, procs, exc, interrupted>>

\* lines 223-234: HaltedError, FatalError and the catch-all clause
HandleException ==
    /\ pc = "raised"
    /\ ExceptClause(exc) \in {"HaltedError", "FatalError", "Exception"}
    /\ stderr' = Append(stderr,
                    [kind |-> CASE ExceptClause(exc) = "HaltedError" -> "halted"
                                [] ExceptClause(exc) = "FatalError" -> "fatal"
                                [] OTHER -> "fatal_unrecognized",
                     lineno |-> exc.lineno, err |-> exc.cls])
    /\ exitCode' = 1
    /\ pc' = "exited"
    /\ UNCHANGED <<args, r, release_info, release_name, idx, url, file, size, p,
                   checksum, stdout, fs, net, procs, exc, interrupted>>

\* no except clause takes the exception: it leaves main and ends the process
Unhandled ==
    /\ pc = "raised"
    /\ ExceptClause(exc) = "none"
    /\ exitCode' = exc.code
    /\ pc' = "exited"
    /\ UNCHANGED <<args, r, release_info, release_name, idx, url, file, size, p,
                   checksum, stdout, stderr, fs, net, procs, exc, interrupted>>

\* line 237: exit(main()), main returns None
Return ==
    /\ pc = "return"
    /\ exitCode' = 0
    /\ pc' = "exited"
    /\ UNCHANGED <<args, r, release_info, release_name, idx, url, file, size, p,
                   checksum, stdout, stderr, fs, net, procs, exc, interrupted>>

Next ==
    \/ GetReleaseInfo
    \/ ParseReleaseInfo
    \/ PrintReleaseInfo
    \/ For
    \/ Download
    \/ GetSize
    \/ RunChecksum
    \/ CheckReturncode
    \/ ParseChecksum
    \/ Render
    \/ Interrupt
    \/ HandleReturncodeNonZero
    \/ HandleTimeoutExpired
    \/ HandleException
    \/ Unhandled
    \/ Return

Spec == Init /\ [][Next]_vars





(* ------------------------- derived history --------------------------- *)

IsRow(e) == e.kind = "html_block"

\* the rows printed so far, in the order of printing
Rows == SelectSeq(stdout, IsRow)

RowExts == [i \in 1..Len(Rows) |-> Rows[i].ext]

HasRow(ext) == \E i \in 1..Len(Rows) : Rows[i].ext = ext

ExtIndex(ext) == CHOOSE i \in 1..Len(Exts) : Exts[i] = ext

\* an artifact download that failed or answered with a non-success status
DownloadFailed(n) == n.ext # "" /\ (n.outcome = "network_error" \/ n.status_code # 200)

\* a checksum process that timed out, was not found or ended non-zero
ChecksumFailed(c) == c.outcome # "exits" \/ c.returncode # 0

StepFailed(ext) ==
    \/ \E i \in 1..Len(net) : net[i].ext = ext /\ DownloadFailed(net[i])
    \/ \E i \in 1..Len(procs) : procs[i].ext = ext /\ ChecksumFailed(procs[i])

\* every request and every checksum process of the run succeeded
NoFailure ==
    /\ \A i \in 1..Len(net) : net[i].outcome = "response" /\ net[i].status_code = 200
    /\ Len(net) >= 1 => r.body.wellformed /\ r.body.has_html_url
    /\ \A i \in 1..Len(procs) : ~ChecksumFailed(procs[i])

IsPrefix(s, t) == Len(s) <= Len(t) /\ \A i \in 1..Len(s) : s[i] = t[i]

(* ------------------------------ claims ------------------------------- *)

\* C1: once the checksum command of a format has finished with a non-zero
\* exit code, the run never goes on to parse or render: the only exception
\* the program raises is ReturncodeNonZeroError carrying that completed
\* process, no row of that format is printed, and a run the operator does
\* not interrupt ends with exit code 1 and the return code diagnostic.
C1_NonZeroReturncodeIsFatal ==
    \A i \in 1..Len(procs) :
        (procs[i].outcome = "exits" /\ procs[i].returncode # 0) =>
            /\ i = Len(procs)
            /\ ~HasRow(procs[i].ext)
            /\ pc \in {"check_returncode", "raised", "exited"}
            /\ p.returncode = procs[i].returncode /\ p.args = procs[i].cmd
            /\ ~interrupted /\ pc \in {"raised", "exited"} =>
                   exc = ReturncodeNonZeroError(p)
            /\ ~interrupted /\ pc = "exited" =>
                   /\ exitCode = 1
                   /\ stderr[1] = [kind |-> "fatal_returncode", args |-> p.args,
                                   returncode |-> p.returncode]

C1_Witness ==
    /\ pc = "exited"
    /\ exitCode = 1
    /\ exc.cls = "ReturncodeNonZeroError"
    /\ Len(procs) = 2
    /\ procs[2].ext = ".tar.gz" /\ procs[2].returncode = 1
    /\ RowExts = <<".zip">>

\* C2: when the download of a format fails or answers with a non-success
\* status, no checksum process is run and no row is printed for that
\* format, and the run ends with exit code 1.
C2_DownloadErrorAborts ==
    \A i \in 1..Len(net) :
        DownloadFailed(net[i]) =>
            /\ \A j \in 1..Len(procs) : procs[j].ext # net[i].ext
            /\ ~HasRow(net[i].ext)
            /\ ~interrupted /\ pc = "exited" => exitCode = 1

\* C3: a run in which every step succeeded ends with exit code 0 after
\* printing the row of .zip and then the row of .tar.gz, whatever the
\* verbosity.
C3_SuccessRendersAllFormats ==
    (pc = "exited" /\ ~interrupted /\ NoFailure) =>
        /\ exitCode = 0
        /\ RowExts = Exts

\* C4: when the metadata endpoint answers with a non-success status, the
\* metadata request stays the only request of the run (no retry, no
\* download), no row is printed, and a run the operator does not interrupt
\* ends with exit code 1 and a fatal diagnostic.
C4_MetadataStatusIsFatal ==
    (Len(net) >= 1 /\ net[1].outcome = "response" /\ net[1].status_code # 200) =>
        /\ Len(net) = 1
        /\ procs = <<>>
        /\ Rows = <<>>
        /\ fs = {}
        /\ ~interrupted /\ pc = "exited" => exitCode = 1 /\ Len(stderr) = 1

C4_Witness ==
    /\ pc = "exited"
    /\ exitCode = 1
    /\ net[1].status_code = 404
    /\ r.body.has_html_url
    /\ exc.cls = "UnboundLocalError"

\* C5: in every state, each printed row belongs to a format whose file was
\* written by a download, whose size is the size read from that file, and
\* whose checksum process on that file completed with exit code 0.
C5_RowOnlyAfterMeasure ==
    \A i \in 1..Len(Rows) :
        /\ \E j \in 1..Len(net) :
             /\ net[j].ext = Rows[i].ext
             /\ net[j].outcome = "response"
             /\ \E f \in fs : f.name = DownloadFilename(net[j].url)
             /\ Rows[i].size = net[j].size
             /\ \E k \in 1..Len(procs) :
                  /\ procs[k].ext = Rows[i].ext
                  /\ procs[k].cmd.file = DownloadFilename(net[j].url)
                  /\ procs[k].outcome = "exits"
                  /\ procs[k].returncode = 0

C5_Witness ==
    /\ RowExts = Exts
    /\ Rows[2].size = MaxSize
    /\ pc = "exited"

\* C6: when the checksum process of a format times out, the run ends with
\* exit code 1, its timeout diagnostic carries the configured timeout, and
\* rows exist for the formats before that one only.
C6_TimeoutIsFatal ==
    \A i \in 1..Len(procs) :
        procs[i].outcome = "hangs" =>
            /\ i = Len(procs)
            /\ pc \in {"raised", "exited"}
            /\ exc = TimeoutExpired(procs[i].cmd, args.timeout)
            /\ \A j \in 1..Len(Rows) : ExtIndex(Rows[j].ext) < ExtIndex(procs[i].ext)
            /\ pc = "exited" =>
                   /\ exitCode = 1
                   /\ stderr[1].kind = "fatal_timeout"
                   /\ stderr[1].timeout = args.timeout

C6_Witness ==
    /\ pc = "exited"
    /\ exitCode = 1
    /\ Len(procs) = 1
    /\ procs[1].outcome = "hangs"
    /\ args.timeout = DefaultTimeout
    /\ Rows = <<>>

\* C7: an operator interrupt delivered while main is in its try block is
\* taken by no except clause, and the process ends with exit code 0 and an
\* empty error stream.
C7_InterruptExitsCleanly ==
    interrupted =>
        /\ pc \in {"raised", "exited"}
        /\ exc = SystemExit(0)
        /\ ExceptClause(exc) = "none"
        /\ stderr = <<>>
        /\ pc = "exited" => exitCode = 0

C7_Witness ==
    /\ interrupted
    /\ pc = "exited"
    /\ exitCode = 0
    /\ Len(net) = 2
    /\ Len(procs) = 1

\* C8: requests and checksum processes happen in the order metadata, .zip,
\* .tar.gz, each at most once; when a step of .zip fails, .tar.gz is never
\* downloaded, checksummed or rendered; and a run in which a step of any
\* format failed ends with exit code 1.
C8_AbortOnFirstFailure ==
    /\ IsPrefix([i \in 1..Len(net) |-> net[i].ext], <<"">> \o Exts)
    /\ IsPrefix([i \in 1..Len(procs) |-> procs[i].ext], Exts)
    /\ IsPrefix(RowExts, Exts)
    /\ StepFailed(Exts[1]) =>
           /\ \A i \in 1..Len(net) : net[i].ext # Exts[2]
           /\ \A i \in 1..Len(procs) : procs[i].ext # Exts[2]
           /\ ~HasRow(Exts[2])
    /\ \A e \in {Exts[1], Exts[2]} :
           (StepFailed(e) /\ ~interrupted /\ pc = "exited") => exitCode = 1

\* C9: when the checksum executable is missing, the exception is taken by
\* the catch-all clause and not by the ReturncodeNonZeroError clause, the
\* run ends with exit code 1 and the catch-all diagnostic, and no row of
\* that format is printed.
C9_MissingCommandIsDistinct ==
    \A i \in 1..Len(procs) :
        procs[i].outcome = "missing" =>
            /\ i = Len(procs)
            /\ ~HasRow(procs[i].ext)
            /\ pc \in {"raised", "exited"}
            /\ exc.cls = "FileNotFoundError"
            /\ ExceptClause(exc) = "Exception"
            /\ pc = "exited" =>
                   /\ exitCode = 1
                   /\ stderr = <<[kind |-> "fatal_unrecognized", lineno |-> 171,
                                  err |-> "FileNotFoundError"]>>

C9_Witness ==
    /\ pc = "exited"
    /\ exitCode = 1
    /\ Len(procs) = 1
    /\ procs[1].outcome = "missing"
    /\ stderr[1].kind = "fatal_unrecognized"

\* C10: the file name shown in a printed row (link target and link text)
\* is the name of the local file that was written for that format and
\* handed to the checksum command.
C10_RowNamesLocalFile ==
    \A i \in 1..Len(Rows) :
        /\ \E f \in fs : f.name = Rows[i].text /\ f.name = Rows[i].href
        /\ \E k \in 1..Len(procs) :
             procs[k].ext = Rows[i].ext /\ procs[k].cmd.file = Rows[i].text

====
